---- MODULE Spec2Model ----
(***************************************************************************)
(* The doubly-linked TransactionLog of transaction-log/src/lib.rs: nodes   *)
(* under shared ownership (Rc<RefCell<Node>>), the log's head and tail     *)
(* slots and length, and the ListIterator cursors seeded from them.        *)
(***************************************************************************)
EXTENDS Integers, Sequences, FiniteSets, TLC

\* Bounds of the model.
MaxAppends == 4          \* append calls in one run
MaxCursors == 1          \* ListIterator objects that can be alive at once

Values == {"A", "B"}     \* the String payloads callers append

None == 0                \* Link = Option<Rc<RefCell<Node>>>: the None link
NoValue == "None"        \* Option<String>::None, the empty / exhausted signal
Panicked == "panic"      \* the call did not return: it panicked

CursorIds == 1..MaxCursors

VARIABLES
    nodes,      \* the heap: node id -> [value, prev, next], live Rc allocations only
    head,       \* TransactionLog.head
    tail,       \* TransactionLog.tail
    length,     \* TransactionLog.length
    cursors,    \* cursor id -> ListIterator (current_link) and its history:
                \* how it was seeded, the one direction it has moved in and the
                \* values it has yielded, kept while the log stays as it was
    panic,      \* "none", or the panic that ended the program
    op,         \* the last call made: <<name, cursor id or 0>>
    result,     \* what the last call returned
    appended,   \* history: every value appended, in call order
    popped,     \* history: every value a pop returned, in call order
    born,       \* history: cursor id -> the number of appends made before the
                \* cursor was created (recorded in IterSpec only)
    slog        \* the singly-linked TransactionLog of main.rs, run side by side
                \* with the log in PairSpec: [nodes, head, tail, length, result]

vars == <<nodes, head, tail, length, cursors, panic, op, result, appended, popped,
          born, slog>>

\* ------------------------------------------------------------------ Node

\* Node::new(value): prev and next are None.
NodeNew(value) == [value |-> value, prev |-> None, next |-> None]

\* Rc::strong_count of node n, the local handles of a running call not
\* counted: the head and tail slots, every prev and next link of a live
\* node, and every cursor's current_link.
StrongCount(heap, h, t, cs, n) ==
    (IF h = n THEN 1 ELSE 0) + (IF t = n THEN 1 ELSE 0)
    + Cardinality({m \in DOMAIN heap : heap[m].prev = n})
    + Cardinality({m \in DOMAIN heap : heap[m].next = n})
    + Cardinality({c \in DOMAIN cs : cs[c].current_link = n})

\* Dropping an Rc whose count reaches zero drops the node and with it the
\* node's own prev and next links, which may release further nodes.
RECURSIVE Release(_, _, _, _)
Release(heap, h, t, cs) ==
    LET dead == {n \in DOMAIN heap : StrongCount(heap, h, t, cs, n) = 0}
    IN  IF dead = {} THEN heap
        ELSE Release([n \in DOMAIN heap \ dead |-> heap[n]], h, t, cs)

\* ------------------------------------------------------------------ Cursor

\* A cursor slot holding no ListIterator.
NoCursor ==
    [alive |-> FALSE, current_link |-> None, seed |-> "none", dir |-> "none",
     steps |-> 0]

\* ListIterator::new(start_at); the history fields record how it was seeded
\* and the number of values yielded so far.
ListIteratorNew(start_at, seed) ==
    [alive |-> TRUE, current_link |-> start_at, seed |-> seed, dir |-> "fresh",
     steps |-> 0]

\* The history of a cursor is given up once it no longer is a traversal in one
\* direction of an unchanged log; its current_link is untouched.
Untrack(it) ==
    IF it.alive THEN [it EXCEPT !.seed = "off", !.dir = "off", !.steps = 0] ELSE it

\* ------------------------------------------------------------------ Log

\* main.rs, TransactionLog::new(); result is what its last call returned.
MainNew ==
    [nodes |-> <<>>, head |-> None, tail |-> None, length |-> 0, result |-> NoValue]

\* TransactionLog::new()
Init ==
    /\ nodes = <<>>
    /\ head = None
    /\ tail = None
    /\ length = 0
    /\ cursors = [c \in CursorIds |-> NoCursor]
    /\ panic = "none"
    /\ op = <<"new", 0>>
    /\ result = NoValue
    /\ appended = <<>>
    /\ popped = <<>>
    /\ born = [c \in CursorIds |-> 0]
    /\ slog = MainNew

\* Mutant of AppendLink: the new node's prev is left None.
AppendLink_NoPrev(heap, old_node, new_node) ==
    [heap EXCEPT ![old_node].next = new_node]

\* Mutant of AppendLink: the list is closed into a ring, the head's prev
\* set to the new node.
AppendLink_Ring(heap, old_node, new_node) ==
    [heap EXCEPT ![old_node].next = new_node, ![new_node].prev = old_node,
                 ![head].prev = new_node]

\* Mutant of AppendLink: the old tail is linked to itself (old_node for
\* new_node in the first assignment).
AppendLink_SelfLoop(heap, old_node, new_node) ==
    [heap EXCEPT ![old_node].next = old_node, ![new_node].prev = old_node]

\* append, Some(old_node) arm: old_node.next = new_node, new_node.prev = old_node.
AppendLink(heap, old_node, new_node) ==
    [heap EXCEPT ![old_node].next = new_node, ![new_node].prev = old_node]

\* append: self.length += 1
LengthAfterAppend(len) == len + 1

\* TransactionLog::append(value). The new node's id is its position in the
\* append history.
append(value) ==
    /\ panic = "none"
    /\ Len(appended) < MaxAppends
    /\ LET new_node == Len(appended) + 1
           heap1 == [n \in DOMAIN nodes \cup {new_node} |->
                        IF n = new_node THEN NodeNew(value) ELSE nodes[n]]
       IN  /\ IF tail # None
                 THEN /\ nodes' = AppendLink(heap1, tail, new_node)
                      /\ head' = head
                 ELSE /\ nodes' = heap1
                      /\ head' = new_node
           /\ length' = LengthAfterAppend(length)
           /\ tail' = new_node
    /\ appended' = Append(appended, value)
    /\ op' = <<"append", 0>>
    /\ result' = NoValue
    /\ cursors' = [c \in CursorIds |-> Untrack(cursors[c])]
    /\ UNCHANGED <<panic, popped>>

\* pop: the node the removed head's next link held (head_node.next.take()).
PopSuccessor(heap, head_node) == heap[head_node].next

\* Mutant of PopUnlink: the successor's prev keeps its reference to the
\* removed head.
PopUnlink_KeepPrev(heap, head_node, next_node) ==
    [heap EXCEPT ![head_node].next = None]

\* pop: head_node.next is taken and, when there is a successor, its prev is
\* set to None.
PopUnlink(heap, head_node, next_node) ==
    IF next_node # None
        THEN [heap EXCEPT ![head_node].next = None, ![next_node].prev = None]
        ELSE [heap EXCEPT ![head_node].next = None]

\* Mutant of PopTail: the tail slot is never cleared.
PopTail_Kept(t, next_node) == t

\* pop: the tail slot afterwards; self.tail.take() when there is no successor.
PopTail(t, next_node) == IF next_node = None THEN None ELSE t

\* Mutant of LengthAfterPop: the decrement is lost.
LengthAfterPop_Kept(len) == len

\* pop: self.length -= 1
LengthAfterPop(len) == len - 1

\* Mutant of PopValue: the newest entry's value is returned.
PopValue_Newest(heap, head_node) == heap[tail].value

\* pop: the value moved out of the reclaimed node.
PopValue(heap, head_node) == heap[head_node].value

\* Mutant of popNone: length is decremented although nothing was removed.
popNone_Decrement ==
    /\ result' = NoValue
    /\ length' = length - 1
    /\ UNCHANGED <<nodes, head, tail, cursors, panic, popped>>

\* pop on a log whose head is None: take() gives None, map does nothing.
popNone ==
    /\ result' = NoValue
    /\ UNCHANGED <<nodes, head, tail, length, cursors, panic, popped>>

\* pop on a log with a head node. The RefMut of head_node lives through the
\* if-let body, so borrowing the successor mutably panics when it is the same
\* node. Rc::try_unwrap succeeds only when the local handle is the last owner.
popSome ==
    LET head_node == head
        next_node == PopSuccessor(nodes, head_node)
        heap2 == PopUnlink(nodes, head_node, next_node)
        head2 == next_node
        tail2 == PopTail(tail, next_node)
    IN  /\ cursors' = [c \in CursorIds |-> Untrack(cursors[c])]
        /\ IF next_node = head_node
           THEN /\ panic' = "already borrowed"
                /\ result' = Panicked
                /\ head' = None
                /\ nodes' = Release([nodes EXCEPT ![head_node].next = None],
                                    None, tail, cursors)
                /\ UNCHANGED <<tail, length, popped>>
           ELSE /\ head' = head2
                /\ tail' = tail2
                /\ length' = LengthAfterPop(length)
                /\ IF StrongCount(heap2, head2, tail2, cursors, head_node) = 0
                   THEN /\ nodes' = Release([n \in DOMAIN heap2 \ {head_node} |-> heap2[n]],
                                            head2, tail2, cursors)
                        /\ result' = PopValue(heap2, head_node)
                        /\ popped' = Append(popped, PopValue(heap2, head_node))
                        /\ panic' = panic
                   ELSE /\ nodes' = Release(heap2, head2, tail2, cursors)
                        /\ result' = Panicked
                        /\ panic' = "Something is terribly wrong"
                        /\ popped' = popped

\* TransactionLog::pop()
pop ==
    /\ panic = "none"
    /\ IF head = None THEN popNone ELSE popSome
    /\ op' = <<"pop", 0>>
    /\ UNCHANGED appended

\* TransactionLog::iter(): a cursor seeded with a clone of head.
iter(c) ==
    /\ panic = "none"
    /\ ~cursors[c].alive
    /\ cursors' = [cursors EXCEPT ![c] = ListIteratorNew(head, "iter")]
    /\ op' = <<"iter", c>>
    /\ result' = NoValue
    /\ UNCHANGED <<nodes, head, tail, length, panic, appended, popped>>

\* Mutant of BackIterSeed: back_iter() seeds its cursor with head.
BackIterSeed_Head == head

\* The link back_iter() seeds its cursor with: a clone of tail.
BackIterSeed == tail

\* TransactionLog::back_iter()
back_iter(c) ==
    /\ panic = "none"
    /\ ~cursors[c].alive
    /\ cursors' = [cursors EXCEPT ![c] = ListIteratorNew(BackIterSeed, "back_iter")]
    /\ op' = <<"back_iter", c>>
    /\ result' = NoValue
    /\ UNCHANGED <<nodes, head, tail, length, panic, appended, popped>>

\* Mutant of StepResult: the value is read after moving, from the successor.
StepResult_Moved(cur) ==
    IF cur = None \/ nodes[cur].next = None THEN NoValue
    ELSE nodes[nodes[cur].next].value

\* The value a cursor step returns at link cur: the current node's value, or
\* None when there is no current node.
StepResult(cur) == IF cur = None THEN NoValue ELSE nodes[cur].value

\* Mutant of NextLink: next() follows prev.
NextLink_Prev(cur) == IF cur = None THEN None ELSE nodes[cur].prev

\* ListIterator::next: the link the cursor moves to from cur.
NextLink(cur) == IF cur = None THEN None ELSE nodes[cur].next

\* Mutant of NextBackLink: next_back() follows next.
NextBackLink_Next(cur) == IF cur = None THEN None ELSE nodes[cur].next

\* Mutant of NextBackLink: an exhausted cursor starts again at the tail.
NextBackLink_Wrap(cur) == IF cur = None THEN tail ELSE nodes[cur].prev

\* ListIterator::next_back: the link the cursor moves to from cur.
NextBackLink(cur) == IF cur = None THEN None ELSE nodes[cur].prev

\* The cursor after a step in direction d: current_link is assigned the link
\* the match gave. The history counts the values yielded while the cursor has
\* moved in one direction only; a step from no current node yields nothing.
Stepped(it, d, link) ==
    IF it.current_link = None THEN [it EXCEPT !.current_link = link]
    ELSE IF it.dir \in {"fresh", d}
         THEN [it EXCEPT !.current_link = link, !.dir = d, !.steps = @ + 1]
         ELSE Untrack([it EXCEPT !.current_link = link])

\* Mutant of next: the cursor takes the next link out of the node it leaves
\* (next.take() for next.clone()).
next_Take(c) ==
    /\ panic = "none"
    /\ cursors[c].alive
    /\ result' = StepResult(cursors[c].current_link)
    /\ cursors' = [cursors EXCEPT
                      ![c] = Stepped(@, "next", NextLink(@.current_link))]
    /\ nodes' = IF cursors[c].current_link = None THEN nodes
                ELSE Release([nodes EXCEPT ![cursors[c].current_link].next = None],
                             head, tail, cursors')
    /\ op' = <<"next", c>>
    /\ UNCHANGED <<head, tail, length, panic, appended, popped>>

\* ListIterator::next(); the Rc the cursor held before is dropped.
next(c) ==
    /\ panic = "none"
    /\ cursors[c].alive
    /\ result' = StepResult(cursors[c].current_link)
    /\ cursors' = [cursors EXCEPT
                      ![c] = Stepped(@, "next", NextLink(@.current_link))]
    /\ nodes' = Release(nodes, head, tail, cursors')
    /\ op' = <<"next", c>>
    /\ UNCHANGED <<head, tail, length, panic, appended, popped>>

\* ListIterator::next_back()
next_back(c) ==
    /\ panic = "none"
    /\ cursors[c].alive
    /\ result' = StepResult(cursors[c].current_link)
    /\ cursors' = [cursors EXCEPT
                      ![c] = Stepped(@, "next_back", NextBackLink(@.current_link))]
    /\ nodes' = Release(nodes, head, tail, cursors')
    /\ op' = <<"next_back", c>>
    /\ UNCHANGED <<head, tail, length, panic, appended, popped>>

\* A ListIterator goes out of scope: its current_link is dropped.
drop(c) ==
    /\ panic = "none"
    /\ cursors[c].alive
    /\ cursors' = [cursors EXCEPT ![c] = NoCursor]
    /\ nodes' = Release(nodes, head, tail, cursors')
    /\ op' = <<"drop", c>>
    /\ result' = NoValue
    /\ UNCHANGED <<head, tail, length, panic, appended, popped>>

\* ------------------------------------------------------------------ main.rs

\* main.rs, Node::new(value): next is None.
MainNodeNew(value) == [value |-> value, next |-> None]

\* Rc::strong_count of node n of the singly-linked log, local handles not
\* counted: the head and tail slots and every next link.
MainStrongCount(heap, h, t, n) ==
    (IF h = n THEN 1 ELSE 0) + (IF t = n THEN 1 ELSE 0)
    + Cardinality({m \in DOMAIN heap : heap[m].next = n})

\* Nodes whose count has reached zero are dropped, and their next links with
\* them.
RECURSIVE MainRelease(_, _, _)
MainRelease(heap, h, t) ==
    LET dead == {n \in DOMAIN heap : MainStrongCount(heap, h, t, n) = 0}
    IN  IF dead = {} THEN heap
        ELSE MainRelease([n \in DOMAIN heap \ dead |-> heap[n]], h, t)

\* Mutant of MainAppendLink: the old tail's next is left None.
MainAppendLink_Unlinked(heap, old_node, new_node) == heap

\* main.rs append, Some(old_node) arm: old_node.next = new_node.
MainAppendLink(heap, old_node, new_node) ==
    [heap EXCEPT ![old_node].next = new_node]

\* main.rs, TransactionLog::append(value). The new node's id is its position
\* in the append history, as in the doubly-linked log.
main_append(value) ==
    LET new_node == Len(appended) + 1
        heap1 == [n \in DOMAIN slog.nodes \cup {new_node} |->
                     IF n = new_node THEN MainNodeNew(value) ELSE slog.nodes[n]]
    IN  slog' = [nodes  |-> IF slog.tail # None
                               THEN MainAppendLink(heap1, slog.tail, new_node)
                               ELSE heap1,
                 head   |-> IF slog.tail # None THEN slog.head ELSE new_node,
                 tail   |-> new_node,
                 length |-> slog.length + 1,
                 result |-> NoValue]

\* main.rs, TransactionLog::pop()
main_pop ==
    IF slog.head = None
    THEN slog' = [slog EXCEPT !.result = NoValue]
    ELSE LET head_node == slog.head
             next_node == slog.nodes[head_node].next
             heap2 == [slog.nodes EXCEPT ![head_node].next = None]
             tail2 == IF next_node = None THEN None ELSE slog.tail
             owned == MainStrongCount(heap2, next_node, tail2, head_node) = 0
         IN  slog' = [nodes  |-> IF owned
                                    THEN MainRelease([n \in DOMAIN heap2 \ {head_node}
                                                         |-> heap2[n]],
                                                     next_node, tail2)
                                    ELSE MainRelease(heap2, next_node, tail2),
                      head   |-> next_node,
                      tail   |-> tail2,
                      length |-> slog.length - 1,
                      result |-> IF owned THEN heap2[head_node].value ELSE Panicked]

\* ------------------------------------------------------------------ Specifications

\* The log used through append and pop alone: no cursor is ever created.
LogNext ==
    \/ \E v \in Values : append(v) /\ UNCHANGED <<born, slog>>
    \/ pop /\ UNCHANGED <<born, slog>>

LogSpec == Init /\ [][LogNext]_vars

\* The whole public API.
Next ==
    \/ \E v \in Values : append(v) /\ UNCHANGED <<born, slog>>
    \/ pop /\ UNCHANGED <<born, slog>>
    \/ \E c \in CursorIds : iter(c) /\ UNCHANGED <<born, slog>>
    \/ \E c \in CursorIds : back_iter(c) /\ UNCHANGED <<born, slog>>
    \/ \E c \in CursorIds : next(c) /\ UNCHANGED <<born, slog>>
    \/ \E c \in CursorIds : next_back(c) /\ UNCHANGED <<born, slog>>
    \/ \E c \in CursorIds : drop(c) /\ UNCHANGED <<born, slog>>

Spec == Init /\ [][Next]_vars

\* Cursors made by iter() and moved by next() alone, with the number of
\* appends before each cursor's creation recorded in born.
IterNext ==
    \/ \E v \in Values : append(v) /\ UNCHANGED <<born, slog>>
    \/ pop /\ UNCHANGED <<born, slog>>
    \/ \E c \in CursorIds :
          iter(c) /\ born' = [born EXCEPT ![c] = Len(appended)] /\ UNCHANGED slog
    \/ \E c \in CursorIds : next(c) /\ UNCHANGED <<born, slog>>
    \/ \E c \in CursorIds :
          drop(c) /\ born' = [born EXCEPT ![c] = 0] /\ UNCHANGED slog

IterSpec == Init /\ [][IterNext]_vars

\* The doubly-linked log and the singly-linked log of main.rs given the same
\* append and pop calls.
PairNext ==
    \/ \E v \in Values : append(v) /\ main_append(v) /\ UNCHANGED born
    \/ pop /\ main_pop /\ UNCHANGED born

PairSpec == Init /\ [][PairNext]_vars

\* ------------------------------------------------------------------ Sanity

TypeOK ==
    /\ DOMAIN nodes \subseteq 1..MaxAppends
    /\ \A n \in DOMAIN nodes :
          /\ nodes[n].value \in Values
          /\ nodes[n].prev \in DOMAIN nodes \cup {None}
          /\ nodes[n].next \in DOMAIN nodes \cup {None}
    /\ head \in DOMAIN nodes \cup {None}
    /\ tail \in DOMAIN nodes \cup {None}
    /\ length \in 0..MaxAppends
    /\ \A c \in CursorIds : cursors[c].current_link \in DOMAIN nodes \cup {None}

\* ------------------------------------------------------------------ History and walks

\* The values appended and not yet returned by a pop, oldest first.
Pending == SubSeq(appended, Len(popped) + 1, Len(appended))

Reverse(s) == [i \in 1..Len(s) |-> s[Len(s) + 1 - i]]

\* More steps than any walk over the live nodes can take without repeating.
Fuel == Cardinality(DOMAIN nodes) + 1

\* The nodes met by following next from node n, in at most fuel steps.
RECURSIVE ChainFrom(_, _)
ChainFrom(n, fuel) ==
    IF n = None \/ fuel = 0 THEN <<>>
    ELSE <<n>> \o ChainFrom(nodes[n].next, fuel - 1)

\* The log's chain: the walk from head.
Chain == ChainFrom(head, Fuel)

\* The values a cursor at link cur yields when next() is called until it
\* returns None (at most fuel calls).
RECURSIVE CollectNext(_, _)
CollectNext(cur, fuel) ==
    IF StepResult(cur) = NoValue \/ fuel = 0 THEN <<>>
    ELSE <<StepResult(cur)>> \o CollectNext(NextLink(cur), fuel - 1)

\* The same with next_back().
RECURSIVE CollectNextBack(_, _)
CollectNextBack(cur, fuel) ==
    IF StepResult(cur) = NoValue \/ fuel = 0 THEN <<>>
    ELSE <<StepResult(cur)>> \o CollectNextBack(NextBackLink(cur), fuel - 1)

\* ------------------------------------------------------------------ Claims

\* C1 (FIFO): without cursors, the values pop has returned are the first
\* appended values in append order; a pop returns None only when every
\* appended value has been popped, and otherwise returns the oldest appended
\* value not popped before.
C1_Fifo ==
    /\ Len(popped) <= Len(appended)
    /\ popped = SubSeq(appended, 1, Len(popped))
    /\ op = <<"pop", 0>> =>
          \/ result = NoValue /\ Len(popped) = Len(appended)
          \/ /\ Len(popped) >= 1
             /\ result = appended[Len(popped)]

\* Three pops have returned values that differ, the last call being a pop.
C1_Witness ==
    /\ op = <<"pop", 0>>
    /\ result \in Values
    /\ Len(popped) >= 3
    /\ popped[1] # popped[2]

\* C2: the reclaim in pop never fails ("Something is terribly wrong"),
\* whatever public calls are made, also with a cursor alive on the head node.
C2_ReclaimNeverFails == panic # "Something is terribly wrong"

\* C3: length is the number of appends minus the number of pops that returned
\* a value.
C3_LengthIsPending == length = Len(appended) - Len(popped)

\* Two entries are left after two pops returned values.
C3_Witness == length = 2 /\ Len(popped) = 2

\* C4: a pop on an empty log (length 0) returns None and leaves head and tail
\* None, length 0 and the heap as it was.
C4_PopEmpty ==
    [][(op' = <<"pop", 0>> /\ length = 0) =>
          /\ head = None /\ tail = None
          /\ result' = NoValue
          /\ head' = None /\ tail' = None
          /\ length' = 0
          /\ nodes' = nodes
          /\ panic' = "none"]_vars

\* A pop has returned None on a log that was drained by earlier pops.
C4_Witness ==
    /\ op = <<"pop", 0>>
    /\ result = NoValue
    /\ length = 0
    /\ Len(popped) >= 2

\* C5: on a cursor from iter() moved by next() alone over an unchanged log,
\* the k-th call returns the k-th pending entry (oldest first) for k up to
\* length, and every call after that returns None.
C5_ForwardIteration ==
    [][\A c \in CursorIds :
          (op' = <<"next", c>> /\ cursors[c].seed = "iter"
                               /\ cursors[c].dir \in {"fresh", "next"}) =>
             /\ Len(Pending) = length
             /\ cursors[c].steps <= length
             /\ result' = IF cursors[c].steps < length
                             THEN Pending[cursors[c].steps + 1]
                             ELSE NoValue]_vars

\* A cursor from iter() has yielded all entries of a log of at least two
\* entries, some entries popped before, and its last next() returned None.
C5_Witness ==
    \E c \in CursorIds :
        /\ op = <<"next", c>>
        /\ result = NoValue
        /\ cursors[c].seed = "iter"
        /\ cursors[c].dir = "next"
        /\ cursors[c].steps = length
        /\ length >= 2
        /\ Len(popped) >= 1

\* C6: on a cursor from back_iter() moved by next_back() alone over an
\* unchanged log, the k-th call returns the k-th pending entry counted from
\* the newest for k up to length, and every call after that returns None.
C6_BackwardIteration ==
    [][\A c \in CursorIds :
          (op' = <<"next_back", c>> /\ cursors[c].seed = "back_iter"
                                    /\ cursors[c].dir \in {"fresh", "next_back"}) =>
             /\ Len(Pending) = length
             /\ cursors[c].steps <= length
             /\ result' = IF cursors[c].steps < length
                             THEN Pending[length - cursors[c].steps]
                             ELSE NoValue]_vars

\* A cursor from back_iter() has yielded all entries of a log of at least two
\* entries, some entries popped before, and its last next_back() returned None.
C6_Witness ==
    \E c \in CursorIds :
        /\ op = <<"next_back", c>>
        /\ result = NoValue
        /\ cursors[c].seed = "back_iter"
        /\ cursors[c].dir = "next_back"
        /\ cursors[c].steps = length
        /\ length >= 2
        /\ Len(popped) >= 1

\* C7 as stated: iter() collected by next() is the reverse of back_iter()
\* collected by next().
C7_DualityBothForward ==
    CollectNext(head, Fuel) = Reverse(CollectNext(BackIterSeed, Fuel))

\* C7 amended: iter() collected by next() is the reverse of back_iter()
\* collected by next_back().
C7_Duality ==
    CollectNext(head, Fuel) = Reverse(CollectNextBack(BackIterSeed, Fuel))

\* The log holds at least three entries that do not read the same in both
\* directions, after a pop.
C7_Witness ==
    /\ Len(CollectNext(head, Fuel)) >= 3
    /\ CollectNext(head, Fuel) # Reverse(CollectNext(head, Fuel))
    /\ Len(popped) >= 1

\* C8: length is 0 iff head is None iff tail is None; the walk from head over
\* next visits length nodes and ends at the tail node; with length 1 head and
\* tail are the same node, whose prev and next are None.
C8_Shape ==
    /\ (length = 0) = (head = None)
    /\ (head = None) = (tail = None)
    /\ Len(Chain) = length
    /\ length > 0 => Chain[length] = tail
    /\ length = 1 => /\ head = tail
                     /\ nodes[head].prev = None
                     /\ nodes[head].next = None

\* One entry is left after earlier pops, the last call being a pop.
C8_Witness ==
    /\ length = 1
    /\ op = <<"pop", 0>>
    /\ Len(popped) >= 2

\* C9: for adjacent chain nodes A, B: A.next is B and B.prev is A; the head's
\* prev and the tail's next are None; no node occurs twice in the chain.
C9_BackLinks ==
    /\ \A i \in 1..(Len(Chain) - 1) :
          /\ nodes[Chain[i]].next = Chain[i + 1]
          /\ nodes[Chain[i + 1]].prev = Chain[i]
    /\ head # None => nodes[head].prev = None
    /\ tail # None => nodes[tail].next = None
    /\ \A i, j \in 1..Len(Chain) : Chain[i] = Chain[j] => i = j
    /\ Len(Chain) <= Cardinality(DOMAIN nodes)

\* A pop has just left a chain of at least three nodes.
C9_Witness ==
    /\ op = <<"pop", 0>>
    /\ result \in Values
    /\ Len(Chain) >= 3

\* C10: a live cursor whose current_link is None keeps it None through every
\* call, and its next() and next_back() return None and leave the cursor as
\* it was.
C10_Exhausted ==
    [][\A c \in CursorIds :
          (cursors[c].alive /\ cursors[c].current_link = None) =>
             /\ cursors'[c].alive => cursors'[c].current_link = None
             /\ op' \in {<<"next", c>>, <<"next_back", c>>} =>
                   /\ result' = NoValue
                   /\ cursors'[c] = cursors[c]]_vars

\* An exhausted cursor was called again and returned None on a log that was
\* changed after the cursor was created and holds entries.
C10_Witness ==
    \E c \in CursorIds :
        /\ op = <<"next_back", c>>
        /\ result = NoValue
        /\ cursors[c].alive
        /\ cursors[c].current_link = None
        /\ cursors[c].seed = "off"
        /\ length >= 2

\* C11 (reset after draining): a pop of a log of one entry leaves head and
\* tail None and length 0 with no node left, as new() does; an append to an
\* empty log gives length 1 with head and tail on the new node; and a pop
\* right after that append returns the value appended.
C11_ResetAfterDrain ==
    [][/\ (op' = <<"pop", 0>> /\ length = 1) =>
             /\ head' = None /\ tail' = None /\ length' = 0
             /\ panic' = "none" => nodes' = <<>>
       /\ (op' = <<"append", 0>> /\ length = 0) =>
             /\ length' = 1
             /\ head' # None /\ head' = tail'
             /\ nodes'[head'] = NodeNew(appended'[Len(appended')])
       /\ (op = <<"append", 0>> /\ length = 1 /\ op' = <<"pop", 0>>) =>
             result' = appended[Len(appended)]]_vars

\* An append has just put one entry into a log that pops had drained.
C11_Witness ==
    /\ op = <<"append", 0>>
    /\ length = 1
    /\ head = tail
    /\ Len(popped) >= 1

\* C12 (atomicity): a call that ends in a panic has changed nothing of the
\* log: head, tail, length and every node are as they were before the call.
C12_NoPartialFailure ==
    [][panic' # "none" =>
          /\ head' = head
          /\ tail' = tail
          /\ length' = length
          /\ nodes' = nodes]_vars

\* The owners of the removed head besides pop's local handle at the reclaim
\* step (Rc::try_unwrap), were pop called in this state on a non-empty log.
OwnersAtReclaim ==
    LET next_node == PopSuccessor(nodes, head)
    IN  StrongCount(PopUnlink(nodes, head, next_node), next_node,
                    PopTail(tail, next_node), cursors, head)

\* C13 (single ownership at removal): with no cursor alive, the head node
\* has two owners before a pop (the head slot and the tail slot or the
\* successor's prev) and none but pop's local handle at the reclaim step; the
\* pop does not panic, returns the head's value, and the node is freed.
C13_SingleOwner ==
    [][(op' = <<"pop", 0>> /\ head # None /\ \A c \in CursorIds : ~cursors[c].alive) =>
          /\ StrongCount(nodes, head, tail, cursors, head) = 2
          /\ OwnersAtReclaim = 0
          /\ panic' = "none"
          /\ result' = nodes[head].value
          /\ DOMAIN nodes' = DOMAIN nodes \ {head}]_vars

\* With no cursor alive a pop has returned a value and left at least two
\* entries, after an earlier pop.
C13_Witness ==
    /\ op = <<"pop", 0>>
    /\ result \in Values
    /\ \A c \in CursorIds : ~cursors[c].alive
    /\ length >= 2
    /\ Len(popped) >= 2

\* C14 as stated: every value a cursor from iter() yields on next() is an
\* entry that was in the log when the cursor was created (node ids count the
\* appends), so no entry appended later is yielded.
C14_ViewNotExtended ==
    [][\A c \in CursorIds :
          (op' = <<"next", c>> /\ cursors[c].current_link # None) =>
             cursors[c].current_link <= born[c]]_vars

\* C14 amended: next() on a cursor from iter() yields the entry it is on and
\* moves to the entry appended next, if there is one by then, whether or not
\* that entry was appended after the cursor's creation; a cursor that has
\* reached None yields nothing, whatever was appended since.
C14_ViewFollowsChain ==
    [][\A c \in CursorIds :
          op' = <<"next", c>> =>
             LET cur == cursors[c].current_link
             IN  IF cur = None
                 THEN /\ result' = NoValue
                      /\ cursors'[c].current_link = None
                 ELSE /\ result' = appended[cur]
                      /\ cursors'[c].current_link =
                            IF cur < Len(appended) THEN cur + 1 ELSE None]_vars

\* A cursor has yielded an entry appended after its creation and stands on
\* another such entry.
C14_Witness ==
    \E c \in CursorIds :
        /\ op = <<"next", c>>
        /\ result \in Values
        /\ cursors[c].alive
        /\ cursors[c].current_link > born[c] + 1

\* The calls made on or for a cursor.
CursorOps(c) == {<<"iter", c>>, <<"back_iter", c>>, <<"next", c>>, <<"next_back", c>>}

\* C15 (the cursor never mutates the log): iter(), back_iter(), next() and
\* next_back() leave head, tail, length and every node as they were; next()
\* and next_back() change nothing but the current link (and history) of the
\* cursor they are called on.
C15_CursorFrame ==
    [][\A c \in CursorIds :
          /\ op' \in CursorOps(c) =>
                /\ head' = head /\ tail' = tail /\ length' = length
                /\ nodes' = nodes
                /\ panic' = panic
                /\ \A d \in CursorIds \ {c} : cursors'[d] = cursors[d]
          /\ op' \in {<<"next", c>>, <<"next_back", c>>} =>
                cursors'[c].alive = cursors[c].alive]_vars

\* A cursor has moved from one entry to the next of a log of at least two
\* entries.
C15_Witness ==
    \E c \in CursorIds :
        /\ op = <<"next", c>>
        /\ result \in Values
        /\ cursors[c].current_link # None
        /\ length >= 2

\* C16 (frame of append): an append always succeeds and adds 1 to length; on
\* a non-empty log it leaves the head slot and every node but the old tail as
\* they were, changes of the old tail only its next (to the new node), and
\* makes the tail slot the new node, whose prev is the old tail.
C16_AppendFrame ==
    [][op' = <<"append", 0>> =>
          /\ length' = length + 1
          /\ panic' = "none"
          /\ length > 0 =>
                /\ head' = head
                /\ tail' \notin DOMAIN nodes
                /\ DOMAIN nodes' = DOMAIN nodes \cup {tail'}
                /\ \A n \in DOMAIN nodes \ {tail} : nodes'[n] = nodes[n]
                /\ nodes'[tail] = [nodes[tail] EXCEPT !.next = tail']
                /\ nodes'[tail'] = [value |-> appended'[Len(appended')],
                                    prev |-> tail, next |-> None]]_vars

\* An append has made a log of at least three entries, after a pop.
C16_Witness ==
    /\ op = <<"append", 0>>
    /\ length >= 3
    /\ Len(popped) >= 1

\* C17 (mixed directions): on a cursor on node n, next() returns n's value
\* and moves to n.next, next_back() returns n's value and moves to n.prev;
\* and a next_back() right after a next() that left a node for its successor
\* returns the successor's value and puts the cursor back on the node left,
\* the one whose next is the successor and whose value next() returned.
C17_MixedDirections ==
    [][\A c \in CursorIds :
          LET cur == cursors[c].current_link
              new == cursors'[c].current_link
          IN  /\ (op' = <<"next", c>> /\ cur # None) =>
                    /\ result' = nodes[cur].value
                    /\ new = nodes[cur].next
              /\ (op' = <<"next_back", c>> /\ cur # None) =>
                    /\ result' = nodes[cur].value
                    /\ new = nodes[cur].prev
              /\ (op = <<"next", c>> /\ result \in Values /\ cur # None
                                     /\ op' = <<"next_back", c>>) =>
                    /\ result' = nodes[cur].value
                    /\ new # None
                    /\ nodes[new].next = cur
                    /\ nodes[new].value = result]_vars

\* On a log of two entries never popped, a cursor that has moved in both
\* directions stands on the older entry after next_back() returned the
\* newer entry's value: it went there by next() and came back.
C17_Witness ==
    \E c \in CursorIds :
        /\ op = <<"next_back", c>>
        /\ Len(appended) = 2 /\ Len(popped) = 0
        /\ cursors[c].seed = "off"
        /\ cursors[c].current_link = head
        /\ result = nodes[tail].value
        /\ result # nodes[head].value

\* C18 (no conflicting borrows): the nodes pop borrows mutably at the same
\* time, the head and its successor, are never one node, nor are the old tail
\* and the node append creates; no node is its own next or prev; so no call
\* panics with "already borrowed".
C18_NoBorrowConflict ==
    /\ panic # "already borrowed"
    /\ head # None => PopSuccessor(nodes, head) # head
    /\ tail # Len(appended) + 1
    /\ \A n \in DOMAIN nodes : nodes[n].next # n /\ nodes[n].prev # n

\* A pop has returned a value from a log that had a successor to its head,
\* so it held both borrows.
C18_Witness ==
    /\ op = <<"pop", 0>>
    /\ result \in Values
    /\ length >= 2
    /\ panic = "none"

\* The chain of the doubly-linked log with the prev links dropped.
WithoutPrev == [n \in DOMAIN nodes |-> [value |-> nodes[n].value, next |-> nodes[n].next]]

\* C19 (equivalence on append/pop): given the same calls, the singly-linked
\* log of main.rs and the doubly-linked log return the same from every call,
\* have the same length after it, and the singly-linked chain is the
\* doubly-linked one without its prev links.
C19_SameAsSingle ==
    /\ slog.result = result
    /\ slog.length = length
    /\ slog.head = head
    /\ slog.tail = tail
    /\ slog.nodes = WithoutPrev

\* Both logs have returned the same value from a second pop and hold at
\* least two entries.
C19_Witness ==
    /\ op = <<"pop", 0>>
    /\ result \in Values
    /\ slog.result = result
    /\ slog.length >= 2
    /\ Len(popped) >= 2

====
